---- MODULE Spec2Model ----
(***************************************************************************)
(* A model of neural_sp's RNN language model (models/pytorch_v3/lm/        *)
(* rnnlm.py), the training-step Updater (utils/training/updater.py) and    *)
(* the character-level evaluator (neural_sp/evaluators/character.py).      *)
(*                                                                         *)
(* Each component has its own specification over its own variables; the    *)
(* variables of the other components stay at their idle values.            *)
(***************************************************************************)
EXTENDS Integers, Sequences, FiniteSets, TLC

VARIABLES
    \* ---- RNNLM.decode (rnnlm.py:249-315)
    d_pc,            \* position in decode: "idle", "loop", "truncate", "done"
    batch_size,      \* len(start_tokens)
    max_decode_len,  \* argument of decode
    y_in,            \* the tokens fed to the next step, one per example
    y_lens,          \* per-example length counter
    eos_flag,        \* per-example stopping flag
    _best_hyps,      \* the tokens chosen so far: one column per executed step
    t,               \* number of loop iterations executed
    best_hyps        \* the returned hypotheses

VARIABLES
    \* ---- Updater (updater.py:27-102)
    u_pc,            \* "idle", "ready" (constructed), "returned" (after a call)
    backend,         \* self.backend
    clip_grad_norm,  \* self.clip_grad_norm
    params,          \* the model parameters
    grads,           \* the gradients accumulated on the parameters
    is_eval,         \* argument of the last call
    fault,           \* where the last call's model raised RuntimeError
    loss,            \* the loss the last call's forward computed, or NoLoss
    obtained,        \* loss_val when the last call reached line 94
    loss_val,        \* the loss value the last call returned
    caught,          \* whether the last call ran its except block
    ops,             \* the operations the last call performed, in order
    params_before,   \* the parameters when the last call started
    grads_before     \* the gradients when the last call started

VARIABLES
    \* ---- RNNLM.forward, batch preparation (rnnlm.py:149-213)
    f_pc,            \* "idle", "ready" (called), "done"
    training,        \* the module's train/eval mode flag
    ys,              \* argument: the list of token sequences
    fwd_is_eval,     \* argument is_eval
    perm_idx,        \* the sort order (1-based positions into the argument)
    ys_sorted,       \* ys after line 172
    fwd_y_lens,      \* y_lens of forward
    ys_in,           \* padded inputs
    ys_out,          \* padded targets
    loss_norm        \* the divisor of the loss: ys_out.size(0) * ys_out.size(1)

VARIABLES
    \* ---- RNNLM.__init__ (rnnlm.py:45-147)
    c_pc,            \* "idle", "layers", "tie", "init", "done", "raised"
    args,            \* the constructor's arguments
    model,           \* the fields set so far
    init_steps,      \* the parameter initialisations performed, in order
    error            \* the exception that ended construction, or "none"

VARIABLES
    \* ---- eval_char (character.py:23-141)
    e_pc,            \* "idle", "loop", "finish", "done", "raised"
    num_utts,        \* the number of utterances in the dataset
    label_type,      \* dataset.label_type
    eval_batch_size, \* decode_params['batch_size']
    cursor,          \* the dataset's data counter
    f_ref,           \* the lines written to ref.trn
    f_hyp,           \* the lines written to hyp.trn
    eval_error,      \* the exception that ended eval_char, or "none"
    refs,            \* the dataset's reference text of every utterance
    w_stats,         \* wer, num_sub_w, num_ins_w, num_del_w as accumulated
    c_stats,         \* cer, num_sub_c, num_ins_c, num_del_c as accumulated
    num_words,       \* the word-level divisor
    num_chars,       \* the character-level divisor
    scored,          \* the calls of compute_wer: level, ref units, hyp units
    result           \* the value eval_char returned, or NoResult

decodeVars == <<d_pc, batch_size, max_decode_len, y_in, y_lens, eos_flag,
                _best_hyps, t, best_hyps>>

updVars == <<u_pc, backend, clip_grad_norm, params, grads, is_eval, fault,
             loss, obtained, loss_val, caught, ops, params_before,
             grads_before>>

fwdVars == <<f_pc, training, ys, fwd_is_eval, perm_idx, ys_sorted, fwd_y_lens,
             ys_in, ys_out, loss_norm>>

ctorVars == <<c_pc, args, model, init_steps, error>>

evalVars == <<e_pc, num_utts, label_type, eval_batch_size, cursor, f_ref,
              f_hyp, eval_error, refs, w_stats, c_stats, num_words, num_chars,
              scored, result>>

vars == <<decodeVars, updVars, fwdVars, ctorVars, evalVars>>

notDecodeVars == <<updVars, fwdVars, ctorVars, evalVars>>
notUpdVars == <<decodeVars, fwdVars, ctorVars, evalVars>>
notFwdVars == <<decodeVars, updVars, ctorVars, evalVars>>
notCtorVars == <<decodeVars, updVars, fwdVars, evalVars>>
notEvalVars == <<decodeVars, updVars, fwdVars, ctorVars>>

(***************************************************************************)
(* Bounds of the model.                                                    *)
(***************************************************************************)
NumClasses == 1        \* vocabulary size V handed to the constructor
MaxBatch == 2          \* largest decode batch
MaxDecodeLen == 3      \* largest max_decode_len
MaxClip == 1           \* largest clip_grad_norm
MaxGrad == 2           \* largest gradient magnitude a backward pass yields
MaxParam == 2          \* largest parameter magnitude followed
MaxLoss == 1           \* largest finite loss
MaxSeqs == 3           \* largest number of sequences handed to forward
MaxSeqLen == 4         \* longest sequence handed to forward
MaxDim == 2            \* largest embedding_dim and num_units
MaxUtts == 4           \* largest dataset handed to eval_char
MaxEvalBatch == 3      \* largest decode_params['batch_size']

(***************************************************************************)
(* RNNLM fields set by the constructor.                                    *)
(***************************************************************************)
sos == NumClasses
eos == NumClasses
num_classes == NumClasses + 1
Tokens == 0 .. (num_classes - 1)

Min(a, b) == IF a < b THEN a ELSE b

(***************************************************************************)
(* Idle values: a component that a specification does not run.             *)
(***************************************************************************)
DecodeIdle ==
    /\ d_pc = "idle"
    /\ batch_size = 0
    /\ max_decode_len = 0
    /\ y_in = <<>>
    /\ y_lens = <<>>
    /\ eos_flag = <<>>
    /\ _best_hyps = <<>>
    /\ t = 0
    /\ best_hyps = <<>>

UpdaterIdle ==
    /\ u_pc = "idle"
    /\ backend = "none"
    /\ clip_grad_norm = 0
    /\ params = 0
    /\ grads = 0
    /\ is_eval = FALSE
    /\ fault = "none"
    /\ loss = [kind |-> "none", val |-> 0]
    /\ obtained = [kind |-> "none", val |-> 0]
    /\ loss_val = [kind |-> "none", val |-> 0]
    /\ caught = FALSE
    /\ ops = <<>>
    /\ params_before = 0
    /\ grads_before = 0

ForwardIdle ==
    /\ f_pc = "idle"
    /\ training = TRUE
    /\ ys = <<>>
    /\ fwd_is_eval = FALSE
    /\ perm_idx = <<>>
    /\ ys_sorted = <<>>
    /\ fwd_y_lens = <<>>
    /\ ys_in = <<>>
    /\ ys_out = <<>>
    /\ loss_norm = 0

NoModel == [built |-> FALSE]

ConstructorIdle ==
    /\ c_pc = "idle"
    /\ args = <<>>
    /\ model = NoModel
    /\ init_steps = <<>>
    /\ error = "none"

NoStats == [err |-> 0, sub |-> 0, ins |-> 0, del |-> 0]
NoResult == [returned |-> FALSE]

EvalIdle ==
    /\ e_pc = "idle"
    /\ num_utts = 0
    /\ label_type = "none"
    /\ eval_batch_size = 0
    /\ cursor = 0
    /\ f_ref = <<>>
    /\ f_hyp = <<>>
    /\ eval_error = "none"
    /\ refs = <<>>
    /\ w_stats = NoStats
    /\ c_stats = NoStats
    /\ num_words = 0
    /\ num_chars = 0
    /\ scored = <<>>
    /\ result = NoResult

NotDecodeIdle == UpdaterIdle /\ ForwardIdle /\ ConstructorIdle /\ EvalIdle
NotUpdaterIdle == DecodeIdle /\ ForwardIdle /\ ConstructorIdle /\ EvalIdle
NotForwardIdle == DecodeIdle /\ UpdaterIdle /\ ConstructorIdle /\ EvalIdle
NotConstructorIdle == DecodeIdle /\ UpdaterIdle /\ ForwardIdle /\ EvalIdle
NotEvalIdle == DecodeIdle /\ UpdaterIdle /\ ForwardIdle /\ ConstructorIdle

(***************************************************************************)
(* RNNLM.decode                                                            *)
(***************************************************************************)
Examples == 1 .. batch_size

\* for t in range(max_decode_len)
LoopContinuesOffByOne(i, n) == i <= n
LoopContinues(i, n) == i < n

\* if sum(eos_flag) == batch_size: break
AllFinishedNever(flags, n) == Cardinality({b \in 1 .. n : flags[b]}) > n
AllFinished(flags, n) == Cardinality({b \in 1 .. n : flags[b]}) = n

\* the flag of example b after the step that chose tokens y
NextFlag(flags, y, b) == flags[b] \/ y[b] = eos

\* the length counter of example b after the step: incremented while the
\* example was not flagged before the step (the EOS step is counted)
NextLen(lens, flags, b) == IF ~flags[b] THEN lens[b] + 1 ELSE lens[b]

\* row b of the concatenated (B x T) array
Row(cols, b) == [k \in 1 .. Len(cols) |-> cols[k][b]]

\* _best_hyps[b, :n] : a slice past the end stops at the end
Slice(row, n) == SubSeq(row, 1, Min(n, Len(row)))

DecodeInit ==
    /\ d_pc = "loop"
    /\ batch_size \in 1 .. MaxBatch
    /\ max_decode_len \in 1 .. MaxDecodeLen
    /\ y_in \in [1 .. batch_size -> Tokens]          \* start_tokens
    /\ y_lens = [b \in 1 .. batch_size |-> 1]
    /\ eos_flag = [b \in 1 .. batch_size |-> FALSE]
    /\ _best_hyps = <<>>
    /\ t = 0
    /\ best_hyps = <<>>
    /\ NotDecodeIdle

\* One iteration of the loop: the model (embedding, RNN, output layer,
\* arg-max) emits one token per example; any token may come out.
DecodeStep ==
    /\ d_pc = "loop"
    /\ \E y \in [Examples -> Tokens] :
        /\ y_in' = y
        /\ _best_hyps' = Append(_best_hyps, y)
        /\ eos_flag' = [b \in Examples |-> NextFlag(eos_flag, y, b)]
        /\ y_lens' = [b \in Examples |-> NextLen(y_lens, eos_flag, b)]
        /\ t' = t + 1
        /\ d_pc' = IF AllFinished(eos_flag', batch_size) THEN "truncate"
                   ELSE IF LoopContinues(t + 1, max_decode_len) THEN "loop"
                   ELSE "truncate"
    /\ UNCHANGED <<batch_size, max_decode_len, best_hyps>>
    /\ UNCHANGED notDecodeVars

\* Concatenate the columns and cut every row at its length counter.
DecodeTruncate ==
    /\ d_pc = "truncate"
    /\ best_hyps' = [b \in Examples |-> Slice(Row(_best_hyps, b), y_lens[b])]
    /\ d_pc' = "done"
    /\ UNCHANGED <<batch_size, max_decode_len, y_in, y_lens, eos_flag,
                   _best_hyps, t>>
    /\ UNCHANGED notDecodeVars

DecodeNext == DecodeStep \/ DecodeTruncate

SpecDecode == DecodeInit /\ [][DecodeNext]_vars

\* the first step (1-indexed) at which example b chose EOS, 0 when it never did
FirstEos(b) ==
    LET S == {k \in 1 .. Len(_best_hyps) : _best_hyps[k][b] = eos}
    IN  IF S = {} THEN 0 ELSE CHOOSE k \in S : \A j \in S : k <= j

MaxFirstEos ==
    CHOOSE m \in {FirstEos(b) : b \in Examples} :
        \A b \in Examples : FirstEos(b) <= m

\* C1: when example b first chooses EOS at step t, the hypothesis returned for
\* b has length exactly t and its last token is EOS, whatever the other
\* examples of the batch do.
C1_EosLengthExact ==
    d_pc = "done" =>
        \A b \in Examples :
            FirstEos(b) # 0 =>
                /\ Len(best_hyps[b]) = FirstEos(b)
                /\ best_hyps[b][Len(best_hyps[b])] = eos

\* C2: no returned hypothesis is longer than max_decode_len, whether or not
\* the example ever chose EOS.
C2_LengthCapped ==
    d_pc = "done" =>
        \A b \in Examples : Len(best_hyps[b]) <= max_decode_len

\* an example that never chose EOS is returned whole, at the cap, although its
\* length counter ran past the cap
C2_Witness ==
    /\ d_pc = "done"
    /\ \E b \in Examples :
        /\ FirstEos(b) = 0
        /\ y_lens[b] > max_decode_len
        /\ Len(best_hyps[b]) = max_decode_len

\* C3: once every example has chosen EOS the loop has stopped, and the number
\* of iterations executed is the largest first-EOS step; when that step is
\* below max_decode_len the loop ran fewer than max_decode_len iterations.
C3_EarlyStop ==
    (d_pc # "idle" /\ \A b \in Examples : FirstEos(b) # 0) =>
        /\ d_pc # "loop"
        /\ t = MaxFirstEos
        /\ (MaxFirstEos < max_decode_len => t < max_decode_len)

\* a batch whose examples finish at different steps, all before the cap
C3_Witness ==
    /\ d_pc = "done"
    /\ batch_size >= 2
    /\ \A b \in Examples : FirstEos(b) # 0
    /\ \E b, c \in Examples : FirstEos(b) < FirstEos(c)
    /\ t < max_decode_len

(***************************************************************************)
(* Updater.__call__                                                        *)
(*                                                                         *)
(* A loss value is a float: finite, +inf, -inf or nan.  The model and the  *)
(* optimizer are one parameter and one gradient; the optimizer update      *)
(* subtracts the gradient from the parameter.                              *)
(***************************************************************************)
Fin(n) == [kind |-> "fin", val |-> n]
INF == [kind |-> "inf", val |-> 1]
NegINF == [kind |-> "inf", val |-> -1]
NaN == [kind |-> "nan", val |-> 0]
NoLoss == [kind |-> "none", val |-> 0]

\* cross-entropy is not negative
LossValues == {Fin(n) : n \in 0 .. MaxLoss} \cup {INF, NegINF, NaN}
Gradients == (-MaxGrad) .. MaxGrad
Faults == {"none", "forward", "backward"}
Backends == {"pytorch", "chainer"}

\* float ==: nan equals nothing
FloatEq(a, b) == a.kind # "nan" /\ b.kind # "nan" /\ a = b

Abs(n) == IF n < 0 THEN -n ELSE n

\* The state a call threads through its statements; raised: a RuntimeError
\* is in flight and the rest of the try block is skipped.
CallStart(p, g) ==
    [params |-> p, grads |-> g, ops |-> <<>>, loss |-> NoLoss,
     loss_val |-> Fin(0), raised |-> FALSE, caught |-> FALSE]

\* model.optimizer.zero_grad() / model.optimizer.target.cleargrads()
ZeroGrad(st) ==
    IF st.raised THEN st
    ELSE [st EXCEPT !.grads = 0, !.ops = Append(@, "zero_grad")]

\* loss = model(batch['xs'], batch['ys'][, is_eval=True]); the model raises
\* when f = "forward", else computes the loss l
ModelForward(st, mode, f, l) ==
    IF st.raised THEN st
    ELSE IF f = "forward"
         THEN [st EXCEPT !.raised = TRUE, !.ops = Append(@, "forward_" \o mode)]
         ELSE [st EXCEPT !.loss = l, !.ops = Append(@, "forward_" \o mode)]

\* loss.backward(): adds the gradient g of this loss to the gradients; raises
\* when f = "backward" (whatever it had accumulated is cleared by the handler)
Backward(st, f, g) ==
    IF st.raised THEN st
    ELSE IF f = "backward"
         THEN [st EXCEPT !.raised = TRUE, !.ops = Append(@, "backward")]
         ELSE [st EXCEPT !.grads = @ + g, !.ops = Append(@, "backward")]

\* torch.nn.utils.clip_grad_norm(parameters, c): scales the gradient down to
\* norm c when its norm is larger
ClipNorm(g, c) == IF Abs(g) > c THEN (IF g < 0 THEN -c ELSE c) ELSE g

\* if self.clip_grad_norm > 0: clip_grad_norm(...)
ClipGrad(st, c) ==
    IF st.raised \/ ~(c > 0) THEN st
    ELSE [st EXCEPT !.grads = ClipNorm(@, c), !.ops = Append(@, "clip")]

\* model.optimizer.step() / model.optimizer.update()
OptimizerStep(st) ==
    IF st.raised THEN st
    ELSE [st EXCEPT !.params = @ - st.grads, !.ops = Append(@, "step")]

\* loss_val = loss.data[0] / loss_val = loss.data
ReadLoss(st) ==
    IF st.raised THEN st ELSE [st EXCEPT !.loss_val = st.loss]

\* the try block of the pytorch backend
PytorchBody(st, e, c, f, l, g) ==
    IF e
    THEN ReadLoss(ModelForward(st, "eval", f, l))
    ELSE ReadLoss(OptimizerStep(ClipGrad(
             Backward(ModelForward(ZeroGrad(st), "train", f, l), f, g), c)))

\* the try block of the chainer backend
ChainerBody(st, e, f, l, g) ==
    IF e
    THEN ReadLoss(OptimizerStep(
             Backward(ModelForward(ZeroGrad(st), "train", f, l), f, g)))
    ELSE ReadLoss(ModelForward(st, "eval", f, l))

\* except RuntimeError: warn and clear the gradients (either backend)
HandlerKeepsGrads(st) ==
    IF ~st.raised THEN st
    ELSE [st EXCEPT !.raised = FALSE, !.caught = TRUE]
Handler(st) ==
    IF ~st.raised THEN st
    ELSE [st EXCEPT !.raised = FALSE, !.caught = TRUE, !.grads = 0,
                    !.ops = Append(@, "zero_grad")]

\* if loss_val == INF or loss_val == -INF: loss_val = 0
NonFiniteGuardPositiveOnly(v) == IF FloatEq(v, INF) THEN Fin(0) ELSE v
NonFiniteGuard(v) ==
    IF FloatEq(v, INF) \/ FloatEq(v, NegINF) THEN Fin(0) ELSE v

UpdaterInit ==
    /\ u_pc = "ready"
    /\ backend \in Backends
    /\ clip_grad_norm \in 0 .. MaxClip
    /\ params = 0
    /\ grads = 0
    /\ is_eval = FALSE
    /\ fault = "none"
    /\ loss = NoLoss
    /\ obtained = NoLoss
    /\ loss_val = NoLoss
    /\ caught = FALSE
    /\ ops = <<>>
    /\ params_before = 0
    /\ grads_before = 0
    /\ NotUpdaterIdle

\* the call returns (model, loss_val) from the state st its try/except left
Return(st, e, f) ==
    /\ Abs(st.params) <= MaxParam
    /\ Abs(st.grads) <= 2 * MaxGrad
    /\ params' = st.params
    /\ grads' = st.grads
    /\ is_eval' = e
    /\ fault' = f
    /\ loss' = st.loss
    /\ obtained' = st.loss_val
    /\ loss_val' = NonFiniteGuard(st.loss_val)
    /\ caught' = st.caught
    /\ ops' = st.ops
    /\ params_before' = params
    /\ grads_before' = grads
    /\ u_pc' = "returned"
    /\ UNCHANGED <<backend, clip_grad_norm>>
    /\ UNCHANGED notUpdVars

\* updater(model, batch, is_eval) with backend 'pytorch'
CallPytorch ==
    /\ u_pc \in {"ready", "returned"}
    /\ backend = "pytorch"
    /\ \E e \in BOOLEAN, f \in Faults, l \in LossValues, g \in Gradients :
        Return(Handler(PytorchBody(CallStart(params, grads), e,
                                   clip_grad_norm, f, l, g)), e, f)

\* updater(model, batch, is_eval) with backend 'chainer'
CallChainer ==
    /\ u_pc \in {"ready", "returned"}
    /\ backend = "chainer"
    /\ \E e \in BOOLEAN, f \in Faults, l \in LossValues, g \in Gradients :
        Return(Handler(ChainerBody(CallStart(params, grads), e, f, l, g)),
               e, f)

UpdaterNext == CallPytorch \/ CallChainer

SpecUpdater == UpdaterInit /\ [][UpdaterNext]_vars

\* the operations of a training step with clipping threshold c, in order
TrainingOps(c) ==
    <<"zero_grad", "forward_train", "backward">>
        \o (IF c > 0 THEN <<"clip">> ELSE <<>>) \o <<"step">>

\* C4: when the model's forward raises, the call returns loss value 0 through
\* its except block, with the gradients cleared and the parameters as they
\* were before the call, for either backend and either value of is_eval.
C4_FaultContained ==
    (u_pc = "returned" /\ fault = "forward") =>
        /\ caught
        /\ loss_val = Fin(0)
        /\ grads = 0
        /\ params = params_before

\* an evaluation call that faults with gradients left over from a training
\* step, so that the handler's clearing is what empties them
C4_Witness ==
    /\ u_pc = "returned"
    /\ fault = "forward"
    /\ backend = "pytorch"
    /\ is_eval
    /\ grads_before # 0
    /\ params # 0
    /\ grads = 0

\* C5: a call with is_eval = TRUE leaves the parameters as they were, for
\* every backend.
C5_EvalKeepsParams ==
    (u_pc = "returned" /\ is_eval) => params = params_before

\* C6: a training call (is_eval = FALSE) that does not fault performs: clear
\* gradients, loss in training mode, backward, clipping iff
\* clip_grad_norm > 0, one optimizer update; and returns the loss it computed.
C6_TrainingOrder ==
    (u_pc = "returned" /\ ~is_eval /\ ~caught) =>
        /\ ops = TrainingOps(clip_grad_norm)
        /\ (loss.kind = "fin" => loss_val = loss)

\* C7: an infinite loss value is returned as 0, a finite one unchanged, and a
\* call that did not fault obtained its value from the model's loss.
C7_NonFiniteGuard ==
    u_pc = "returned" =>
        /\ (obtained \in {INF, NegINF} => loss_val = Fin(0))
        /\ (obtained.kind = "fin" => loss_val = obtained)
        /\ (~caught => obtained = loss)
        /\ loss_val.kind # "none"

\* a call whose model computed a loss of -inf
C7_Witness ==
    /\ u_pc = "returned"
    /\ ~caught
    /\ loss = NegINF
    /\ loss_val = Fin(0)

(***************************************************************************)
(* RNNLM.forward: the preparation of the batch.  The embedding, the RNN    *)
(* and the cross-entropy are floating-point computations on the prepared   *)
(* batch; of the loss only its divisor is followed.                        *)
(***************************************************************************)
IGNORE == 0 - 1        \* the pad value of ys_out, the loss's ignore_index

\* sorted(idx, key=..., reverse=True): insertion of position i into an order
\* already sorted; i goes behind every position whose key is not smaller, so
\* that equal keys keep their input order
RECURSIVE InsertDesc(_, _, _)
InsertDescUnstable(order, i, key) ==
    IF order = <<>> THEN <<i>>
    ELSE IF key[Head(order)] > key[i]
         THEN <<Head(order)>> \o InsertDesc(Tail(order), i, key)
         ELSE <<i>> \o order
InsertDesc(order, i, key) ==
    IF order = <<>> THEN <<i>>
    ELSE IF key[Head(order)] >= key[i]
         THEN <<Head(order)>> \o InsertDesc(Tail(order), i, key)
         ELSE <<i>> \o order

RECURSIVE SortDesc(_, _)
SortDesc(n, key) ==
    IF n = 0 THEN <<>> ELSE InsertDesc(SortDesc(n - 1, key), n, key)

\* perm_idx = sorted(range(len(ys)), key=lambda i: len(ys[i]), reverse=True)
PermIdx(seqs) == SortDesc(Len(seqs), [i \in 1 .. Len(seqs) |-> Len(seqs[i])])

\* ys_in = [torch.cat([sos, y], dim=0) for y in ys]
PrependSos(seqs) == [b \in 1 .. Len(seqs) |-> <<sos>> \o seqs[b]]

\* ys_out = [torch.cat([y, eos], dim=0) for y in ys]
AppendEos(seqs) == [b \in 1 .. Len(seqs) |-> seqs[b] \o <<eos>>]

MaxLenOf(seqs) ==
    CHOOSE m \in {Len(seqs[b]) : b \in 1 .. Len(seqs)} :
        \A b \in 1 .. Len(seqs) : Len(seqs[b]) <= m

\* pad_list(xs, pad_value): every row right-padded to the longest row
pad_list(xs, pad_value) ==
    [b \in 1 .. Len(xs) |->
        xs[b] \o [k \in 1 .. (MaxLenOf(xs) - Len(xs[b])) |-> pad_value]]

\* the token sequences a caller hands over: of every length up to MaxSeqLen
\* (the empty one included), over the labels 0 .. V-1
Ramp(first, n) == [k \in 1 .. n |-> (first + k - 1) % NumClasses]
TokenSeqs == {Ramp(first, n) : first \in 0 .. (NumClasses - 1), n \in 0 .. MaxSeqLen}

ForwardInit ==
    /\ f_pc = "ready"
    /\ training \in BOOLEAN
    /\ \E n \in 1 .. MaxSeqs : ys \in [1 .. n -> TokenSeqs]
    /\ fwd_is_eval \in BOOLEAN
    /\ perm_idx = <<>>
    /\ ys_sorted = <<>>
    /\ fwd_y_lens = <<>>
    /\ ys_in = <<>>
    /\ ys_out = <<>>
    /\ loss_norm = 0
    /\ NotForwardIdle

Forward ==
    /\ f_pc = "ready"
    /\ training' = ~fwd_is_eval
    /\ perm_idx' = PermIdx(ys)
    /\ ys_sorted' = [b \in 1 .. Len(ys) |-> ys[perm_idx'[b]]]
    /\ fwd_y_lens' = [b \in 1 .. Len(ys) |-> Len(ys_sorted'[b]) + 1]
    /\ ys_in' = pad_list(PrependSos(ys_sorted'), eos)
    /\ ys_out' = pad_list(AppendEos(ys_sorted'), IGNORE)
    /\ loss_norm' = Len(ys_out') * Len(ys_out'[1])
    /\ f_pc' = "done"
    /\ UNCHANGED <<ys, fwd_is_eval>>
    /\ UNCHANGED notFwdVars

ForwardNext == Forward

SpecForward == ForwardInit /\ [][ForwardNext]_vars

\* C8: the prepared batch is ordered by descending original length, ties in
\* input order; row b is [SOS] + seq[b] in ys_in and seq[b] + [EOS] in ys_out
\* with SOS = EOS = V and len[b] = |seq[b]| + 1; beyond len[b], ys_in holds
\* EOS and ys_out holds the ignore marker -1.
C8_BatchPrepared ==
    f_pc = "done" =>
        LET B == Len(ys) IN
        /\ Len(perm_idx) = B
        /\ {perm_idx[b] : b \in 1 .. B} = 1 .. B
        /\ \A b, c \in 1 .. B :
            b < c =>
                /\ Len(ys[perm_idx[b]]) >= Len(ys[perm_idx[c]])
                /\ (Len(ys[perm_idx[b]]) = Len(ys[perm_idx[c]])
                        => perm_idx[b] < perm_idx[c])
        /\ sos = NumClasses /\ eos = NumClasses
        /\ \A b \in 1 .. B :
            LET seq == ys[perm_idx[b]]
                n == fwd_y_lens[b]
            IN  /\ n = Len(seq) + 1
                /\ SubSeq(ys_in[b], 1, n) = <<sos>> \o seq
                /\ SubSeq(ys_out[b], 1, n) = seq \o <<eos>>
                /\ ys_in[b][1] = sos
                /\ ys_out[b][n] = eos
                /\ Len(ys_in[b]) = Len(ys_out[b])
                /\ Len(ys_in[b]) = fwd_y_lens[1]
                /\ \A k \in (n + 1) .. Len(ys_in[b]) :
                    ys_in[b][k] = eos /\ ys_out[b][k] = IGNORE

\* lengths {4,1,2} come out as {4,2,1}; and a batch with an empty sequence
\* and a tie
C8_Witness ==
    /\ f_pc = "done"
    /\ Len(ys) = 3
    /\ \/ /\ [b \in 1 .. 3 |-> Len(ys[b])] = <<4, 1, 2>>
          /\ perm_idx = <<1, 3, 2>>
          /\ ys_out[3] = ys[2] \o <<eos, IGNORE, IGNORE, IGNORE>>
       \/ /\ [b \in 1 .. 3 |-> Len(ys[b])] = <<0, 1, 0>>
          /\ perm_idx = <<2, 1, 3>>
          /\ ys_in[3] = <<sos, eos>>

(***************************************************************************)
(* RNNLM.__init__                                                          *)
(***************************************************************************)
RnnTypes == {"lstm", "gru", "rnn"}

\* the if/elif chain on rnn_type: the recurrent layer built, or the error
RnnLayer(a) ==
    IF a.rnn_type \in RnnTypes
    THEN [ok |-> TRUE, cell |-> a.rnn_type, input |-> a.embedding_dim,
          hidden |-> a.num_units, bidirectional |-> a.bidirectional]
    ELSE [ok |-> FALSE, error |-> "ValueError: rnn_type"]

\* the tie_weights block: the exception it raises, or "none".  The raise of
\* line 121 is its first statement; the dimension check follows it.
TieWeights(a) ==
    IF a.tie_weights THEN "NotImplementedError" ELSE "none"

\* the initialisation calls of lines 131-147, in order
InitWeightsSteps(a) ==
    <<"weights", "bias_zero">>
        \o (IF a.recurrent_weight_orthogonal THEN <<"orthogonal">> ELSE <<>>)
        \o (IF a.init_forget_gate_bias_with_one THEN <<"forget_gate_bias_one">>
            ELSE <<>>)

ConstructorInit ==
    /\ c_pc = "layers"
    /\ args \in [embedding_dim : 1 .. MaxDim,
                 num_units : 1 .. MaxDim,
                 rnn_type : RnnTypes \cup {"other"},
                 bidirectional : BOOLEAN,
                 tie_weights : BOOLEAN,
                 recurrent_weight_orthogonal : BOOLEAN,
                 init_forget_gate_bias_with_one : BOOLEAN]
    /\ model = NoModel
    /\ init_steps = <<>>
    /\ error = "none"
    /\ NotConstructorIdle

\* lines 61-112: the fields, the embedding, the recurrent layer, the output
ConstructLayers ==
    /\ c_pc = "layers"
    /\ LET rnn == RnnLayer(args)
           num_directions == IF args.bidirectional THEN 2 ELSE 1
       IN  IF rnn.ok
           THEN /\ model' = [built |-> FALSE,
                             num_directions |-> num_directions,
                             num_classes |-> NumClasses + 1,
                             sos |-> NumClasses,
                             eos |-> NumClasses,
                             rnn |-> rnn,
                             output |-> [input |-> args.num_units * num_directions,
                                         classes |-> NumClasses + 1],
                             tied |-> FALSE]
                /\ c_pc' = "tie"
                /\ error' = "none"
           ELSE /\ model' = NoModel
                /\ c_pc' = "raised"
                /\ error' = rnn.error
    /\ UNCHANGED <<args, init_steps>>
    /\ UNCHANGED notCtorVars

\* lines 120-126
ConstructTie ==
    /\ c_pc = "tie"
    /\ LET e == TieWeights(args)
       IN  IF e = "none"
           THEN /\ c_pc' = "init"
                /\ UNCHANGED <<model, error>>
           ELSE /\ c_pc' = "raised"
                /\ error' = e
                /\ model' = NoModel
    /\ UNCHANGED <<args, init_steps>>
    /\ UNCHANGED notCtorVars

\* lines 131-147
ConstructInitWeights ==
    /\ c_pc = "init"
    /\ init_steps' = InitWeightsSteps(args)
    /\ model' = [model EXCEPT !.built = TRUE]
    /\ c_pc' = "done"
    /\ UNCHANGED <<args, error>>
    /\ UNCHANGED notCtorVars

ConstructorNext == ConstructLayers \/ ConstructTie \/ ConstructInitWeights

SpecConstructor == ConstructorInit /\ [][ConstructorNext]_vars

\* C9: with tie_weights = TRUE (and a valid rnn_type) construction fails: with
\* the dimension-mismatch ValueError when num_units # embedding_dim, with
\* NotImplementedError when they are equal; no model object is produced.
C9_TieWeightsFails ==
    (c_pc \in {"init", "done", "raised"} /\ args.tie_weights
        /\ args.rnn_type \in RnnTypes) =>
        /\ c_pc = "raised"
        /\ model = NoModel
        /\ error = IF args.num_units # args.embedding_dim
                   THEN "ValueError: tied dimensions"
                   ELSE "NotImplementedError"

(***************************************************************************)
(* eval_char                                                               *)
(*                                                                         *)
(* The dataset holds the utterances 1 .. num_utts.  A text, reference or   *)
(* hypothesis, is followed by the utterance it is the text of.             *)
(***************************************************************************)
LabelTypes == {"character", "character_nowb", "word"}

\* 'character' in dataset.label_type
HasCharacter(lt) == lt \in {"character", "character_nowb"}
\* 'nowb' not in dataset.label_type
HasNoNowb(lt) == lt \notin {"character_nowb"}

\* the utterance id of utterance u, as the fields that
\* utt_id.replace('-', '_').split('_') yields: speaker, start, end
UttIdFields(u) == <<"spk", u % 2, "seg", u, u + 1>>

\* '_'.join(fields[:-2]), fields[-2], fields[-1]
Annotation(fields) ==
    [speaker |-> SubSeq(fields, 1, Len(fields) - 2),
     start |-> fields[Len(fields) - 1],
     end |-> fields[Len(fields)]]

\* dataset.next(batch_size): the utterances of the next batch, in dataset
\* order, and whether the batch closes the epoch
NextBatch(cur, size, n) ==
    [utts |-> [i \in 1 .. Min(size, n - cur) |-> cur + i],
     is_new_epoch |-> cur + size >= n]

PermutationsOf(n) ==
    {p \in [1 .. n -> 1 .. n] : \A i, j \in 1 .. n : p[i] = p[j] => i = j}

\* the condition of lines 93 and 128.  Its second disjunct reads task_index,
\* a name that is never assigned (line 75 is a comment): when the first
\* disjunct is false the evaluation of the condition raises NameError.
WordCondition(lt) ==
    IF HasCharacter(lt) /\ HasNoNowb(lt) THEN "true" ELSE "NameError"

\* the ref.trn and hyp.trn line of position b of a batch whose decode
\* returned perm: the text is that of utterance batch[perm[b]] (line 76 for
\* the reference, the order of best_hyps for the hypothesis), the annotation
\* is parsed from batch['utt_ids'][b]
TrnLine(batch, perm, b) ==
    [text_of |-> batch[perm[b]], ann |-> Annotation(UttIdFields(batch[b]))]

\* the positions of the batch the inner loop completes the trn lines of: all
\* of them, or the first only when the word condition raises
Written(batch, lt) ==
    IF WordCondition(lt) = "true" THEN Len(batch) ELSE 1

\* A text is a sequence of characters.  The reference texts of a dataset and
\* the texts idx2char makes of a hypothesis: with and without a word boundary.
RefTexts == {<<"a", "b">>, <<"a", " ", "b">>}
HypTexts == {<<"a", "b">>, <<"a", " ", "b">>, <<"b">>}

\* text.split(' ')
RECURSIVE Split(_)
Split(text) ==
    IF text = <<>> THEN << <<>> >>
    ELSE LET rest == Split(Tail(text))
         IN  IF Head(text) = " "
             THEN << <<>> >> \o rest
             ELSE << <<Head(text)>> \o Head(rest) >> \o Tail(rest)

\* list(text.replace(' ', ''))
RECURSIVE RemoveSpaces(_)
RemoveSpaces(text) ==
    IF text = <<>> THEN <<>>
    ELSE IF Head(text) = " " THEN RemoveSpaces(Tail(text))
         ELSE <<Head(text)>> \o RemoveSpaces(Tail(text))

RECURSIVE SumSeq(_)
SumSeq(numbers) ==
    IF numbers = <<>> THEN 0 ELSE Head(numbers) + SumSeq(Tail(numbers))

\* a least-cost alignment of hyp to ref: <<substitutions, insertions,
\* deletions>>
RECURSIVE EditOps(_, _)
EditOps(ref, hyp) ==
    IF ref = <<>> THEN <<0, Len(hyp), 0>>
    ELSE IF hyp = <<>> THEN <<0, 0, Len(ref)>>
    ELSE LET d == EditOps(Tail(ref), Tail(hyp))
             s == IF Head(ref) = Head(hyp) THEN d ELSE <<d[1] + 1, d[2], d[3]>>
             x == EditOps(ref, Tail(hyp))
             i == <<x[1], x[2] + 1, x[3]>>
             y == EditOps(Tail(ref), hyp)
             e == <<y[1], y[2], y[3] + 1>>
             cost(o) == o[1] + o[2] + o[3]
         IN  IF cost(s) <= cost(i) /\ cost(s) <= cost(e) THEN s
             ELSE IF cost(i) <= cost(e) THEN i ELSE e

\* compute_wer(ref, hyp, normalize=False): the error count and its parts
compute_wer(ref, hyp) ==
    LET o == EditOps(ref, hyp)
    IN  [err |-> o[1] + o[2] + o[3], sub |-> o[1], ins |-> o[2], del |-> o[3]]

\* the arguments of the WER call (lines 95-97) and of the CER call (106-108)
WordCall(ref, hyp) == [level |-> "word", ref |-> Split(ref), hyp |-> Split(hyp)]
CharCall(ref, hyp) ==
    [level |-> "char", ref |-> RemoveSpaces(ref), hyp |-> RemoveSpaces(hyp)]

\* num_words += len(ref.split(' '))
WordUnits(ref) == Len(Split(ref))
\* num_chars += len(ref)
CharUnits(ref) == Len(ref)

\* the accumulators after the scores of a batch are added
AddStats(acc, scores) ==
    [err |-> acc.err + SumSeq([b \in 1 .. Len(scores) |-> scores[b].err]),
     sub |-> acc.sub + SumSeq([b \in 1 .. Len(scores) |-> scores[b].sub]),
     ins |-> acc.ins + SumSeq([b \in 1 .. Len(scores) |-> scores[b].ins]),
     del |-> acc.del + SumSeq([b \in 1 .. Len(scores) |-> scores[b].del])]

\* x / y under true division, kept as the fraction
Rate(x, y) == [num |-> x, den |-> y]

\* lines 129-132 and 136-139: every accumulator divided by the divisor
Rates(acc, units) ==
    [err |-> Rate(acc.err, units), sub |-> Rate(acc.sub, units),
     ins |-> Rate(acc.ins, units), del |-> Rate(acc.del, units)]

\* line 134
ZeroRates ==
    [err |-> Rate(0, 1), sub |-> Rate(0, 1), ins |-> Rate(0, 1),
     del |-> Rate(0, 1)]

EvalInit ==
    /\ e_pc = "loop"
    /\ num_utts \in 1 .. MaxUtts
    /\ label_type \in LabelTypes
    /\ eval_batch_size \in 1 .. MaxEvalBatch
    /\ cursor = 0
    /\ f_ref = <<>>
    /\ f_hyp = <<>>
    /\ eval_error = "none"
    /\ refs \in [1 .. num_utts -> RefTexts]
    /\ w_stats = NoStats
    /\ c_stats = NoStats
    /\ num_words = 0
    /\ num_chars = 0
    /\ scored = <<>>
    /\ result = NoResult
    /\ NotEvalIdle

\* one pass of the while loop: next batch, decode, the lines and the scores
\* of the batch.  hyps[b] is the text of best_hyps[b]; the reference of
\* position b is ys[b], that of utterance batch[perm[b]].
EvalBatch ==
    /\ e_pc = "loop"
    /\ LET nb == NextBatch(cursor, eval_batch_size, num_utts)
           batch == nb.utts
       IN  \E perm \in PermutationsOf(Len(batch)),
              hyps \in [1 .. Len(batch) -> HypTexts] :
            LET lines == [b \in 1 .. Written(batch, label_type) |->
                              TrnLine(batch, perm, b)]
                ref(b) == refs[batch[perm[b]]]
                wcalls == [b \in 1 .. Len(batch) |-> WordCall(ref(b), hyps[b])]
                ccalls == [b \in 1 .. Len(batch) |-> CharCall(ref(b), hyps[b])]
                score(calls) ==
                    [b \in 1 .. Len(batch) |->
                        compute_wer(calls[b].ref, calls[b].hyp)]
            IN  /\ f_ref' = f_ref \o lines
                /\ f_hyp' = f_hyp \o lines
                /\ cursor' = cursor + Len(batch)
                /\ IF WordCondition(label_type) = "true"
                   THEN /\ e_pc' = IF nb.is_new_epoch THEN "finish" ELSE "loop"
                        /\ eval_error' = "none"
                        /\ w_stats' = AddStats(w_stats, score(wcalls))
                        /\ num_words' = num_words
                              + SumSeq([b \in 1 .. Len(batch) |-> WordUnits(ref(b))])
                        /\ c_stats' = AddStats(c_stats, score(ccalls))
                        /\ num_chars' = num_chars
                              + SumSeq([b \in 1 .. Len(batch) |-> CharUnits(ref(b))])
                        /\ scored' = scored \o wcalls \o ccalls
                   ELSE /\ e_pc' = "raised"
                        /\ eval_error' = "NameError"
                        /\ UNCHANGED <<w_stats, num_words, c_stats, num_chars,
                                       scored>>
    /\ UNCHANGED <<num_utts, label_type, eval_batch_size, refs, result>>
    /\ UNCHANGED notEvalVars

\* after the loop: dataset.reset(), the rates, the return
EvalFinish ==
    /\ e_pc = "finish"
    /\ cursor' = 0
    /\ IF WordCondition(label_type) = "true"
       THEN /\ result' = [returned |-> TRUE,
                          word |-> Rates(w_stats, num_words),
                          char |-> Rates(c_stats, num_chars)]
            /\ e_pc' = "done"
            /\ eval_error' = "none"
       ELSE /\ result' = NoResult
            /\ e_pc' = "raised"
            /\ eval_error' = "NameError"
    /\ UNCHANGED <<num_utts, label_type, eval_batch_size, f_ref, f_hyp, refs,
                   w_stats, c_stats, num_words, num_chars, scored>>
    /\ UNCHANGED notEvalVars

EvalNext == EvalBatch \/ EvalFinish

SpecEval == EvalInit /\ [][EvalNext]_vars

\* C10: every line of ref.trn and of hyp.trn carries the annotation of the
\* utterance its text belongs to.
C10_LinesAnnotatedWithOwnId ==
    /\ \A k \in 1 .. Len(f_ref) :
        f_ref[k].ann = Annotation(UttIdFields(f_ref[k].text_of))
    /\ \A k \in 1 .. Len(f_hyp) :
        f_hyp[k].ann = Annotation(UttIdFields(f_hyp[k].text_of))

\* the calls of compute_wer made at one level, and what they add up to
CallsAt(level) == SelectSeq(scored, LAMBDA c : c.level = level)

TotalErrors(level, part) ==
    LET calls == CallsAt(level)
    IN  SumSeq([k \in 1 .. Len(calls) |->
                    compute_wer(calls[k].ref, calls[k].hyp)[part]])

TotalUnits(level) ==
    LET calls == CallsAt(level)
    IN  SumSeq([k \in 1 .. Len(calls) |-> Len(calls[k].ref)])

\* the fraction r is x / y
RateIs(r, x, y) == r.den # 0 /\ y # 0 /\ r.num * y = x * r.den

\* C11: the returned rates are the total errors divided by the total
\* reference units of all utterances processed: the reference characters
\* handed to the scorer (spaces removed) at the character level, the
\* reference words at the word level.
C11_RatesOverScoredUnits ==
    e_pc = "done" =>
        /\ Len(CallsAt("char")) = num_utts
        /\ Len(CallsAt("word")) = num_utts
        /\ \A part \in {"err", "sub", "ins", "del"} :
            /\ RateIs(result.char[part], TotalErrors("char", part),
                      TotalUnits("char"))
            /\ RateIs(result.word[part], TotalErrors("word", part),
                      TotalUnits("word"))

\* C12: for every label type eval_char runs to completion over all batches,
\* scoring every utterance at the character level; words are scored only
\* when the label-type condition holds, and when it does not the call still
\* returns, with word stats (0, 0, 0, 0).
C12_CompletesForEveryLabelType ==
    /\ e_pc # "raised"
    /\ eval_error = "none"
    /\ e_pc = "done" =>
        /\ result.returned
        /\ Len(f_ref) = num_utts
        /\ Len(CallsAt("char")) = num_utts
        /\ Len(CallsAt("word")) =
              IF HasCharacter(label_type) /\ HasNoNowb(label_type)
              THEN num_utts ELSE 0
        /\ (~(HasCharacter(label_type) /\ HasNoNowb(label_type))
                => result.word = ZeroRates)

====
